---- MODULE Spec2Model ----
(***************************************************************************)
(* Model of homework.py: the fitness tracker module.                       *)
(*                                                                         *)
(* The driver of homework.py (lines 170-180) takes packages one by one:    *)
(* read_package builds a training from a code and a payload, and, when a   *)
(* training came back, main prints its summary.  The variable out holds    *)
(* the lines written to standard output for the package at hand: those of  *)
(* read_package, then the summary of main.  An exception that leaves main  *)
(* is caught nowhere: it is kept in raised and the program halts.          *)
(*                                                                         *)
(* Numbers.  Python's ints and floats are modelled as exact rationals      *)
(* n/d in lowest terms (d > 0).  The rounding error of binary floating     *)
(* point and float overflow are outside the model.  A value that is not a  *)
(* number (a str in the payload) supports none of the arithmetic the       *)
(* module performs with floats: the operation raises TypeError.  A raised  *)
(* exception is a value of its own kind that every later operation of the  *)
(* same expression passes on, left operand first, as Python evaluates.     *)
(***************************************************************************)
EXTENDS Integers, Sequences, FiniteSets, TLC

VARIABLES pc, nread, workout_type, data, training, out, info, raised

vars == <<pc, nread, workout_type, data, training, out, info, raised>>

(* ------------------------------ bounds --------------------------------- *)

\* packages the driver loop takes in one run
MaxPackages == 2
\* surplus elements appended to a payload
MaxExtra == 1

(* ------------------------------ values --------------------------------- *)

RECURSIVE GCD(_, _)
GCD(a, b) == IF b = 0 THEN a ELSE GCD(b, a % b)

Abs(a) == IF a < 0 THEN 0 - a ELSE a

\* the rational n/d (d # 0) in lowest terms with a positive denominator
Num(n, d) ==
    LET g == GCD(Abs(n), Abs(d))
        s == IF d < 0 THEN 0 - 1 ELSE 1
    IN  [t |-> "num", n |-> (s * n) \div g, d |-> (s * d) \div g]

Whole(n) == [t |-> "num", n |-> n, d |-> 1]

\* a payload element that is not a number
Str == [t |-> "str", n |-> 0, d |-> 1]

\* an attribute the instance does not have
Absent == [t |-> "absent", n |-> 0, d |-> 1]

Exc(name) == [t |-> name, n |-> 0, d |-> 1]

TypeError == Exc("TypeError")
ZeroDivisionError == Exc("ZeroDivisionError")
NotImplementedError == Exc("NotImplementedError")

ValueError == Exc("ValueError")
NoException == Exc("none")

IsNum(x) == x.t = "num"
IsExc(x) ==
    x.t \in {"TypeError", "ZeroDivisionError", "NotImplementedError",
             "ValueError"}

\* x * y
Mul(x, y) ==
    IF IsExc(x) THEN x
    ELSE IF IsExc(y) THEN y
    ELSE IF ~IsNum(x) \/ ~IsNum(y) THEN TypeError
    ELSE LET g1 == GCD(Abs(x.n), y.d)
             g2 == GCD(Abs(y.n), x.d)
         IN  Num((x.n \div g1) * (y.n \div g2), (x.d \div g2) * (y.d \div g1))

\* x / y
Div(x, y) ==
    IF IsExc(x) THEN x
    ELSE IF IsExc(y) THEN y
    ELSE IF ~IsNum(x) \/ ~IsNum(y) THEN TypeError
    ELSE IF y.n = 0 THEN ZeroDivisionError
    ELSE Mul(x, Num(y.d, y.n))

\* x + y
Add(x, y) ==
    IF IsExc(x) THEN x
    ELSE IF IsExc(y) THEN y
    ELSE IF ~IsNum(x) \/ ~IsNum(y) THEN TypeError
    ELSE LET g == GCD(x.d, y.d)
         IN  Num(x.n * (y.d \div g) + y.n * (x.d \div g), (x.d \div g) * y.d)

\* x ** 2
Pow2(x) == Mul(x, x)

(* --------------------------- class constants --------------------------- *)

H_IN_M == Whole(60)
M_IN_KM == Whole(1000)
Training_LEN_STEP == Num(65, 100)
Swimming_LEN_STEP == Num(138, 100)
CALORIES_MEAN_SPEED_MULTIPLIER == Whole(18)
CALORIES_MEAN_SPEED_SHIFT == Num(179, 100)
COEF_WEIGHT == Num(35, 1000)
MEAN_SPEED_IN_2_AND_HEIGHT == Num(29, 1000)
KM_PER_H_IN_M_IN_S == Num(278, 1000)
SM_IN_M == Whole(100)
MEAN_SPEED_MOVE == Num(11, 10)
SPEED_MULTIPLIER == Whole(2)

\* LEN_STEP with the override of Swimming lost
LEN_STEP_NoOverride(cls) == Training_LEN_STEP

\* self.LEN_STEP: the attribute of the instance's own class comes first
LEN_STEP(cls) ==
    IF cls = "Swimming" THEN Swimming_LEN_STEP ELSE Training_LEN_STEP

(* ------------------------------ instances ------------------------------ *)

Instance(cls, action, duration, weight, height, length_pool, count_pool) ==
    [cls |-> cls, action |-> action, duration_h |-> duration,
     weight_kg |-> weight, height_sm |-> height,
     length_pool_m |-> length_pool, count_pool |-> count_pool]

\* Python's None
None == Instance("None", Absent, Absent, Absent, Absent, Absent, Absent)

\* the outcome of a call that raised TypeError while binding its arguments
BindError == [ok |-> FALSE, obj |-> None]

\* Training.__init__ taking surplus arguments, as with a *args parameter
Training___init___Surplus(cls, args) ==
    IF Len(args) < 3 THEN BindError
    ELSE [ok |-> TRUE,
          obj |-> Instance(cls, args[1], args[2], args[3],
                           Absent, Absent, Absent)]

\* Training.__init__(self, action, duration, weight), as cls(*args)
Training___init__(cls, args) ==
    IF Len(args) # 3 THEN BindError
    ELSE [ok |-> TRUE,
          obj |-> Instance(cls, args[1], args[2], args[3],
                           Absent, Absent, Absent)]

\* SportsWalking.__init__(self, action, duration, weight, height)
SportsWalking___init__(args) ==
    IF Len(args) # 4 THEN BindError
    ELSE [ok |-> TRUE,
          obj |-> [Training___init__("SportsWalking", SubSeq(args, 1, 3)).obj
                       EXCEPT !.height_sm = args[4]]]

\* Swimming.__init__ with the two pool arguments stored in each other's place
Swimming___init___Swapped(args) ==
    IF Len(args) # 5 THEN BindError
    ELSE [ok |-> TRUE,
          obj |-> Instance("Swimming", args[1], args[2], args[3],
                           Absent, args[5], args[4])]

\* Swimming.__init__(self, action, duration, weight, length_pool, count_pool)
Swimming___init__(args) ==
    IF Len(args) # 5 THEN BindError
    ELSE [ok |-> TRUE,
          obj |-> [Training___init__("Swimming", SubSeq(args, 1, 3)).obj
                       EXCEPT !.length_pool_m = args[4],
                              !.count_pool = args[5]]]

\* cls(*args) for the three classes of the dispatch table
New(cls, args) ==
    CASE cls = "Swimming" -> Swimming___init__(args)
      [] cls = "SportsWalking" -> SportsWalking___init__(args)
      [] OTHER -> Training___init__(cls, args)

(* ------------------------------- methods ------------------------------- *)

\* get_distance with an override for Swimming that takes the pool's length
\* times the laps
get_distance_Pool(self) ==
    IF self.cls = "Swimming"
    THEN Div(Mul(self.length_pool_m, self.count_pool), M_IN_KM)
    ELSE Div(Mul(self.action, LEN_STEP(self.cls)), M_IN_KM)

\* Training.get_distance, inherited by every class
get_distance(self) ==
    Div(Mul(self.action, LEN_STEP(self.cls)), M_IN_KM)

\* Training.get_mean_speed
Training_get_mean_speed(self) ==
    Div(get_distance(self), self.duration_h)

\* Swimming.get_mean_speed
Swimming_get_mean_speed(self) ==
    Div(Div(Mul(self.length_pool_m, self.count_pool), M_IN_KM),
        self.duration_h)

\* get_mean_speed with the override of Swimming lost
get_mean_speed_NoOverride(self) == Training_get_mean_speed(self)

\* self.get_mean_speed(): Swimming overrides the method of Training
get_mean_speed(self) ==
    IF self.cls = "Swimming" THEN Swimming_get_mean_speed(self)
    ELSE Training_get_mean_speed(self)

\* Running.get_spent_calories
Running_get_spent_calories(self) ==
    LET minutes == Mul(self.duration_h, H_IN_M)
    IN  IF IsExc(minutes) THEN minutes
        ELSE Mul(Div(Mul(Add(Mul(CALORIES_MEAN_SPEED_MULTIPLIER,
                                 get_mean_speed(self)),
                             CALORIES_MEAN_SPEED_SHIFT),
                         self.weight_kg),
                     M_IN_KM),
                 minutes)

\* SportsWalking.get_spent_calories
SportsWalking_get_spent_calories(self) ==
    LET minutes == Mul(self.duration_h, H_IN_M)
        height_in_metres == Div(self.height_sm, SM_IN_M)
    IN  IF IsExc(minutes) THEN minutes
        ELSE IF IsExc(height_in_metres) THEN height_in_metres
        ELSE Mul(Add(Mul(COEF_WEIGHT, self.weight_kg),
                     Mul(Mul(Div(Pow2(Mul(get_mean_speed(self),
                                          KM_PER_H_IN_M_IN_S)),
                                 height_in_metres),
                             MEAN_SPEED_IN_2_AND_HEIGHT),
                         self.weight_kg)),
                 minutes)

\* Swimming.get_spent_calories on the speed of the base class
Swimming_get_spent_calories_BaseSpeed(self) ==
    Mul(Mul(Mul(Add(Training_get_mean_speed(self), MEAN_SPEED_MOVE),
                SPEED_MULTIPLIER),
            self.weight_kg),
        self.duration_h)

\* Swimming.get_spent_calories
Swimming_get_spent_calories(self) ==
    Mul(Mul(Mul(Add(get_mean_speed(self), MEAN_SPEED_MOVE),
                SPEED_MULTIPLIER),
            self.weight_kg),
        self.duration_h)

\* self.get_spent_calories(): the base method raises NotImplementedError
get_spent_calories(self) ==
    CASE self.cls = "Running" -> Running_get_spent_calories(self)
      [] self.cls = "SportsWalking" -> SportsWalking_get_spent_calories(self)
      [] self.cls = "Swimming" -> Swimming_get_spent_calories(self)
      [] OTHER -> NotImplementedError

(* ----------------------------- InfoMessage ------------------------------ *)

InfoMessage(training_type, duration, distance, speed, calories) ==
    [training_type |-> training_type, duration |-> duration,
     distance |-> distance, speed |-> speed, calories |-> calories]

NoInfo == InfoMessage("", Absent, Absent, Absent, Absent)

\* show_training_info calling the base class's get_mean_speed
show_training_info_BaseSpeed(self) ==
    LET distance == get_distance(self)
        speed == Training_get_mean_speed(self)
        calories == get_spent_calories(self)
    IN  IF IsExc(distance) THEN [exc |-> distance, info |-> NoInfo]
        ELSE IF IsExc(speed) THEN [exc |-> speed, info |-> NoInfo]
        ELSE IF IsExc(calories) THEN [exc |-> calories, info |-> NoInfo]
        ELSE [exc |-> NoException,
              info |-> InfoMessage(self.cls, self.duration_h, distance,
                                   speed, calories)]

\* Training.show_training_info: the arguments of InfoMessage are evaluated
\* left to right and the first exception leaves the method
show_training_info(self) ==
    LET distance == get_distance(self)
        speed == get_mean_speed(self)
        calories == get_spent_calories(self)
    IN  IF IsExc(distance) THEN [exc |-> distance, info |-> NoInfo]
        ELSE IF IsExc(speed) THEN [exc |-> speed, info |-> NoInfo]
        ELSE IF IsExc(calories) THEN [exc |-> calories, info |-> NoInfo]
        ELSE [exc |-> NoException,
              info |-> InfoMessage(self.cls, self.duration_h, distance,
                                   speed, calories)]

\* format(x, '.3f') of a number, as the count of thousandths: the nearest
\* one, a tie going to the even neighbour
Round3(x) ==
    LET a == Abs(x.n)
        w == a \div x.d
        r0 == a % x.d
        d1 == (r0 * 10) \div x.d
        r1 == (r0 * 10) % x.d
        d2 == (r1 * 10) \div x.d
        r2 == (r1 * 10) % x.d
        d3 == (r2 * 10) \div x.d
        r3 == (r2 * 10) % x.d
        k == ((w * 10 + d1) * 10 + d2) * 10 + d3
        up == IF 2 * r3 > x.d \/ (2 * r3 = x.d /\ k % 2 = 1) THEN 1 ELSE 0
    IN  IF x.n < 0 THEN 0 - (k + up) ELSE k + up

\* a line of standard output: an error report or a summary, the numbers of
\* the summary in thousandths
Line(kind, training_type, duration, distance, speed, calories) ==
    [kind |-> kind, training_type |-> training_type, duration |-> duration,
     distance |-> distance, speed |-> speed, calories |-> calories]

KeyErrorLine == Line("KeyError", "", 0, 0, 0, 0)
TypeErrorLine == Line("TypeError", "", 0, 0, 0, 0)

\* InfoMessage.get_message: the template filled with the fields; the format
\* code f is an error for a field that is not a number
get_message(i) ==
    IF \E x \in {i.duration, i.distance, i.speed, i.calories} : ~IsNum(x)
    THEN [exc |-> ValueError, line |-> KeyErrorLine]
    ELSE [exc |-> NoException,
          line |-> Line("summary", i.training_type, Round3(i.duration),
                        Round3(i.distance), Round3(i.speed),
                        Round3(i.calories))]

(* ----------------------------- read_package ----------------------------- *)

\* the dict of read_package
trainings == [SWM |-> "Swimming", RUN |-> "Running", WLK |-> "SportsWalking"]

\* read_package with the reports of its two handlers exchanged
read_package_Exchanged(wt, d) ==
    IF wt \notin DOMAIN trainings
    THEN [ret |-> None, printed |-> <<TypeErrorLine>>]
    ELSE IF ~New(trainings[wt], d).ok
    THEN [ret |-> None, printed |-> <<KeyErrorLine>>]
    ELSE [ret |-> New(trainings[wt], d).obj, printed |-> <<>>]

\* read_package: the value it returns and the lines it prints
read_package(wt, d) ==
    IF wt \notin DOMAIN trainings
    THEN [ret |-> None, printed |-> <<KeyErrorLine>>]
    ELSE IF ~New(trainings[wt], d).ok
    THEN [ret |-> None, printed |-> <<TypeErrorLine>>]
    ELSE [ret |-> New(trainings[wt], d).obj, printed |-> <<>>]

(* -------------------------------- inputs -------------------------------- *)

Durations == {Whole(0), Num(1, 2), Whole(1), Whole(2)}

RunPayloads ==
    {<<a, d, w>> : a \in {Whole(0), Whole(9000), Whole(15000)},
                   d \in Durations, w \in {Whole(75), Whole(80)}}

WlkPayloads ==
    {<<a, d, w, h>> : a \in {Whole(0), Whole(10000), Whole(20000)},
                      d \in {Whole(0), Num(1, 2), Whole(1)},
                      w \in {Whole(75), Whole(100)},
                      h \in {Whole(0), Whole(100), Whole(200)}}

SwmPayloads ==
    {<<a, d, w, l, c>> : a \in {Whole(0), Whole(720), Whole(1000)},
                         d \in Durations, w \in {Whole(80)},
                         l \in {Whole(25), Whole(50)},
                         c \in {Whole(0), Whole(40)}}

RECURSIVE Ones(_)
Ones(k) == IF k = 0 THEN <<>> ELSE Append(Ones(k - 1), Whole(1))

\* a payload, cut short, with surplus elements, or with one element that is
\* not a number
Variations(p) ==
    {SubSeq(p, 1, k) : k \in 0..Len(p)}
        \cup {p \o Ones(k) : k \in 1..MaxExtra}
        \cup {[p EXCEPT ![i] = Str] : i \in 1..Len(p)}

UnknownCodes == {"XYZ", "run"}

PayloadsOf(code) ==
    CASE code = "RUN" -> RunPayloads
      [] code = "WLK" -> WlkPayloads
      [] code = "SWM" -> SwmPayloads

\* the packages the driver may be given: a code of the table or an unknown
\* one, with a payload made for a code of the table
Packages ==
    UNION {{<<c, v>> : c \in {code} \cup UnknownCodes,
                       v \in UNION {Variations(p) : p \in PayloadsOf(code)}}
           : code \in {"RUN", "WLK", "SWM"}}

(* -------------------------------- driver -------------------------------- *)

Init ==
    /\ pc = "read"
    /\ nread = 0
    /\ workout_type = ""
    /\ data = <<>>
    /\ training = None
    /\ out = <<>>
    /\ info = NoInfo
    /\ raised = NoException

\* training = read_package(workout_type, data); out holds the lines printed
\* for the package at hand
ReadPackage(wt, d) ==
    /\ pc = "read"
    /\ nread < MaxPackages
    /\ workout_type' = wt
    /\ data' = d
    /\ training' = read_package(wt, d).ret
    /\ out' = read_package(wt, d).printed
    /\ info' = NoInfo
    /\ nread' = nread + 1
    /\ pc' = "main"
    /\ UNCHANGED raised

\* if training: main(training), the training an instance; an exception of
\* main is caught nowhere and ends the program
Main ==
    /\ pc = "main"
    /\ training # None
    /\ LET r == show_training_info(training)
           m == get_message(r.info)
       IN  IF r.exc # NoException
           THEN /\ raised' = r.exc
                /\ pc' = "halt"
                /\ UNCHANGED <<info, out>>
           ELSE IF m.exc # NoException
           THEN /\ raised' = m.exc
                /\ info' = r.info
                /\ pc' = "halt"
                /\ UNCHANGED out
           ELSE /\ info' = r.info
                /\ out' = Append(out, m.line)
                /\ pc' = "read"
                /\ UNCHANGED raised
    /\ UNCHANGED <<nread, workout_type, data, training>>

\* if training: with training None, main is not called
Skip ==
    /\ pc = "main"
    /\ training = None
    /\ pc' = "read"
    /\ UNCHANGED <<nread, workout_type, data, training, out, info, raised>>

Next ==
    \/ \E p \in Packages : ReadPackage(p[1], p[2])
    \/ Main
    \/ Skip

Spec == Init /\ [][Next]_vars

(* ------------------------------ properties ------------------------------ *)

Known == {"SWM", "RUN", "WLK"}

\* the number of fields of the variant a code stands for
FieldCount(code) ==
    CASE code = "RUN" -> 3
      [] code = "WLK" -> 4
      [] code = "SWM" -> 5

VariantOf(code) ==
    CASE code = "RUN" -> "Running"
      [] code = "WLK" -> "SportsWalking"
      [] code = "SWM" -> "Swimming"

AllNumbers(d) == \A i \in 1..Len(d) : IsNum(d[i])

\* a package has been read and its payload fits the variant of its code
Fits == nread > 0 /\ workout_type \in Known
            /\ Len(data) = FieldCount(workout_type)

ErrorLines == {KeyErrorLine, TypeErrorLine}

\* C1: a known code with a numeric payload of the variant's length is read
\* without an error report, and the training returned is of the mapped
\* variant with the payload's elements as its fields, in payload order.
C1_ReadPackageBuildsVariant ==
    (Fits /\ AllNumbers(data)) =>
        /\ \A i \in 1..Len(out) : out[i] \notin ErrorLines
        /\ training.cls = VariantOf(workout_type)
        /\ training.action = data[1]
        /\ training.duration_h = data[2]
        /\ training.weight_kg = data[3]
        /\ (workout_type = "WLK" => training.height_sm = data[4])
        /\ (workout_type = "SWM" => /\ training.length_pool_m = data[4]
                                    /\ training.count_pool = data[5])

C1_Witness ==
    /\ pc = "main"
    /\ workout_type = "SWM"
    /\ data = <<Whole(720), Whole(1), Whole(80), Whole(25), Whole(40)>>
    /\ training.cls = "Swimming"
    /\ training.length_pool_m = Whole(25)
    /\ training.count_pool = Whole(40)
    /\ out = <<>>

\* C2: a code outside the table, whatever the payload, gets the report of
\* the unknown workout kind and no other line, no training is returned and
\* no summary is made for the package.
C2_UnknownCodeReported ==
    (nread > 0 /\ workout_type \notin Known) =>
        /\ out = <<KeyErrorLine>>
        /\ training = None
        /\ info = NoInfo
        /\ raised = NoException

C2_Witness ==
    /\ pc = "read"
    /\ nread > 0
    /\ workout_type = "XYZ"
    /\ Len(data) = 6
    /\ out = <<KeyErrorLine>>
    /\ training = None

\* C3: a known code with a payload shorter or longer than the variant's
\* field count gets the report of invalid data, and no training is returned.
C3_WrongLengthReported ==
    (nread > 0 /\ workout_type \in Known
        /\ Len(data) # FieldCount(workout_type)) =>
        /\ out = <<TypeErrorLine>>
        /\ training = None
        /\ info = NoInfo

C3_Witness ==
    /\ pc = "read"
    /\ nread > 0
    /\ workout_type = "RUN"
    /\ Len(data) = 4
    /\ AllNumbers(data)
    /\ out = <<TypeErrorLine>>
    /\ training = None

\* C4: a known code with a payload of the right length in which an element
\* is not a number gets the report of invalid data, and no training is
\* returned.
C4_WrongTypeReported ==
    (Fits /\ ~AllNumbers(data)) =>
        /\ out = <<TypeErrorLine>>
        /\ training = None

\* C5: for every training read_package returns from a numeric payload (a
\* duration or a height of 0 included), get_distance, get_mean_speed,
\* get_spent_calories and show_training_info end with a value, and the
\* program never ends in an exception.
C5_ComputationNeverFails ==
    (Fits /\ AllNumbers(data) /\ training # None) =>
        /\ IsNum(get_distance(training))
        /\ IsNum(get_mean_speed(training))
        /\ IsNum(get_spent_calories(training))
        /\ show_training_info(training).exc = NoException
        /\ raised = NoException

Positive(x) == IsNum(x) /\ x.n > 0

\* values to put in the place of a field
Others == {Whole(0), Whole(1), Whole(25), Whole(720)}

\* main has returned from show_training_info for the package at hand
Shown == info # NoInfo

\* C6: get_distance is action * step / 1000, the step 0.65 for Running and
\* SportsWalking and 1.38 for Swimming; the summary carries that distance.
C6_DistanceByStep ==
    (training # None /\ IsNum(training.action)) =>
        LET step == IF training.cls = "Swimming" THEN Num(138, 100)
                    ELSE Num(65, 100)
            expected == Div(Mul(training.action, step), Whole(1000))
        IN  /\ get_distance(training) = expected
            /\ (Shown => info.distance = expected)

C6_Witness ==
    /\ Shown
    /\ training.cls = "Swimming"
    /\ training.action = Whole(1000)
    /\ info.distance = Num(138, 100)

\* C7: with a duration above 0, the mean speed of Running and SportsWalking
\* is get_distance() / duration; that of Swimming is pool length * laps /
\* 1000 / duration and stays the same when only the action count changes.
C7_MeanSpeed ==
    (training # None /\ Positive(training.duration_h)) =>
        IF training.cls = "Swimming"
        THEN /\ get_mean_speed(training)
                    = Div(Div(Mul(training.length_pool_m,
                                  training.count_pool), Whole(1000)),
                          training.duration_h)
             /\ \A a \in Others :
                    get_mean_speed([training EXCEPT !.action = a])
                        = get_mean_speed(training)
             /\ (Shown => info.speed = get_mean_speed(training))
        ELSE /\ get_mean_speed(training)
                    = Div(get_distance(training), training.duration_h)
             /\ (Shown => info.speed = Div(info.distance, info.duration))

C7_Witness ==
    /\ Shown
    /\ training.cls = "Swimming"
    /\ training.action = Whole(720)
    /\ training.duration_h = Whole(2)
    /\ training.length_pool_m = Whole(50)
    /\ training.count_pool = Whole(40)
    /\ info.speed = Whole(1)
    /\ Div(info.distance, info.duration) # info.speed

\* the training has numbers in all its fields, a duration above 0 and, for
\* SportsWalking, a height above 0
Valid ==
    /\ Fits
    /\ AllNumbers(data)
    /\ training # None
    /\ Positive(training.duration_h)
    /\ (training.cls = "SportsWalking" => Positive(training.height_sm))

\* C8: for a valid training get_spent_calories is the variant's formula on
\* the variant's own get_mean_speed; SWM [720, 1, 80, 25, 40] has the speed
\* 1.0 and 336 calories.
C8_Calories ==
    /\ Valid =>
        LET speed == get_mean_speed(training)
            w == training.weight_kg
            d == training.duration_h
            minutes == Mul(d, Whole(60))
            expected ==
                CASE training.cls = "Running" ->
                        Mul(Div(Mul(Add(Mul(Whole(18), speed),
                                        Num(179, 100)), w),
                                Whole(1000)), minutes)
                  [] training.cls = "SportsWalking" ->
                        Mul(Add(Mul(Num(35, 1000), w),
                                Mul(Mul(Div(Pow2(Mul(speed, Num(278, 1000))),
                                            Div(training.height_sm,
                                                Whole(100))),
                                        Num(29, 1000)), w)),
                            minutes)
                  [] training.cls = "Swimming" ->
                        Mul(Mul(Mul(Add(speed, Num(11, 10)), Whole(2)), w), d)
        IN  /\ get_spent_calories(training) = expected
            /\ (Shown => info.calories = expected)
    /\ (nread > 0 /\ workout_type = "SWM"
          /\ data = <<Whole(720), Whole(1), Whole(80), Whole(25), Whole(40)>>)
        => /\ get_mean_speed(training) = Whole(1)
           /\ get_spent_calories(training) = Whole(336)

C8_Witness ==
    /\ Shown
    /\ workout_type = "SWM"
    /\ data = <<Whole(720), Whole(1), Whole(80), Whole(25), Whole(40)>>
    /\ info.calories = Whole(336)
    /\ out[Len(out)].calories = 336000

\* C9: what show_training_info returns for a training of read_package is
\* what the training's own variant yields: the name of the variant, the
\* duration as given, and the values of get_distance, get_mean_speed and
\* get_spent_calories (for Swimming the speed of the pool); where one of the
\* three raises, show_training_info ends with that exception and no result.
C9_SummaryOfOwnVariant ==
    /\ Shown =>
        /\ info.training_type = training.cls
        /\ info.training_type = VariantOf(workout_type)
        /\ info.duration = data[2]
        /\ info.distance = get_distance(training)
        /\ info.speed = get_mean_speed(training)
        /\ info.calories = get_spent_calories(training)
        /\ (training.cls = "Swimming" =>
                info.speed = Div(Div(Mul(data[4], data[5]), Whole(1000)),
                                 data[2]))
    /\ (nread > 0 /\ training # None /\ pc # "main") =>
        (Shown <=> /\ IsNum(get_distance(training))
                   /\ IsNum(get_mean_speed(training))
                   /\ IsNum(get_spent_calories(training)))
    /\ (nread > 0 /\ training # None /\ pc # "main" /\ ~Shown) =>
        /\ pc = "halt"
        /\ raised \in {get_distance(training), get_mean_speed(training),
                       get_spent_calories(training)}
        /\ IsExc(raised)

C9_Witness ==
    /\ Shown
    /\ pc = "read"
    /\ info.training_type = "Swimming"
    /\ info.duration = Num(1, 2)
    /\ info.speed = Whole(4)
    /\ info.distance = Num(138, 100)

\* C10 as stated: the distance of a Swimming training is pool length * laps
\* / 1000 and stays the same when only the action count changes.
C10_DistanceByPool ==
    (training.cls = "Swimming" /\ AllNumbers(data)) =>
        /\ get_distance(training)
               = Div(Mul(training.length_pool_m, training.count_pool),
                     Whole(1000))
        /\ (Shown => info.distance = get_distance(training))
        /\ \A a \in Others :
               get_distance([training EXCEPT !.action = a])
                   = get_distance(training)

\* C10 amended: the distance of a Swimming training (and the distance of its
\* summary) is action * 1.38 / 1000; it stays the same when the pool's
\* length or the laps change, and differs for different action counts.
C10_DistanceByAction ==
    (training.cls = "Swimming" /\ AllNumbers(data)) =>
        /\ get_distance(training)
               = Div(Mul(training.action, Num(138, 100)), Whole(1000))
        /\ (Shown => info.distance = get_distance(training))
        /\ \A v \in Others :
               /\ get_distance([training EXCEPT !.length_pool_m = v])
                      = get_distance(training)
               /\ get_distance([training EXCEPT !.count_pool = v])
                      = get_distance(training)
        /\ \A a \in Others :
               a # training.action =>
                   get_distance([training EXCEPT !.action = a])
                       # get_distance(training)

C10_Witness ==
    /\ Shown
    /\ training.cls = "Swimming"
    /\ training.action = Whole(720)
    /\ info.distance = Num(621, 625)
    /\ Div(Mul(training.length_pool_m, training.count_pool), Whole(1000))
           = Whole(2)

====
